---- MODULE Spec2Model ----
(***************************************************************************)
(* Model of the note cache of quick-notes (src/quick_notes/utils.py) and   *)
(* of the command loop that drives it (src/quick_notes/cli.py).            *)
(*                                                                         *)
(* A line of text is a sequence of one-character strings.  A note file is  *)
(* a record [l1, l2] of its first two lines (the body is never read).  A   *)
(* path is the file name inside the configured note directory, extension   *)
(* included.  A python dict is a function whose DOMAIN is its key set.     *)
(***************************************************************************)
EXTENDS Integers, Sequences, FiniteSets, TLC

\* ------------------------------------------------------------------ bounds
\* at most this many files in the note directory at the same time
MaxFiles == 2

\* at most this many files in the "deleted" subdirectory at the same time
MaxDeleted == 1

\* at most this many characters in a line handed to the parser on its own
MaxLen == 4

\* ------------------------------------------------------- python primitives
Put(f, k, v) == [x \in (DOMAIN f) \cup {k} |-> IF x = k THEN v ELSE f[x]]

Del(f, k) == [x \in (DOMAIN f) \ {k} |-> f[x]]

Empty == [x \in {} |-> {}]

Range(s) == {s[i] : i \in 1..Len(s)}

IsSpace(c) == c = " "

RECURSIVE lstrip(_)
lstrip(s) == IF s # <<>> /\ IsSpace(Head(s)) THEN lstrip(Tail(s)) ELSE s

RECURSIVE rstrip(_)
rstrip(s) ==
  IF s # <<>> /\ IsSpace(s[Len(s)]) THEN rstrip(SubSeq(s, 1, Len(s) - 1)) ELSE s

\* str.strip()
strip(s) == rstrip(lstrip(s))

\* str.startswith(p)
startswith(s, p) == Len(s) >= Len(p) /\ SubSeq(s, 1, Len(p)) = p

\* str.lstrip(chars): drops every leading character that is in chars
RECURSIVE lstrip_chars(_, _)
lstrip_chars(s, cs) ==
  IF s # <<>> /\ Head(s) \in cs THEN lstrip_chars(Tail(s), cs) ELSE s

\* length of the leading run of non-space characters
RECURSIVE TokenLen(_)
TokenLen(s) == IF s = <<>> \/ IsSpace(Head(s)) THEN 0 ELSE 1 + TokenLen(Tail(s))

\* str.split() with no separator: the whitespace-separated tokens
RECURSIVE split(_)
split(s) ==
  LET t == lstrip(s)
  IN IF t = <<>> THEN <<>>
     ELSE LET n == TokenLen(t)
          IN <<SubSeq(t, 1, n)>> \o split(SubSeq(t, n + 1, Len(t)))

LowerChar(c) == IF c = "A" THEN "a" ELSE IF c = "B" THEN "b" ELSE c

\* str.lower()
RECURSIVE lower(_)
lower(s) == IF s = <<>> THEN <<>> ELSE <<LowerChar(Head(s))>> \o lower(Tail(s))

\* sep.join(toks)
RECURSIVE join(_, _)
join(sep, toks) ==
  IF toks = <<>> THEN <<>>
  ELSE IF Len(toks) = 1 THEN toks[1]
  ELSE toks[1] \o sep \o join(sep, Tail(toks))

\* ------------------------------------------------------------ note parsing
Ext == <<".", "m", "d">>

\* Cache.get_note_path_for_note_name
get_note_path_for_note_name(note_name) ==
  join(<<"_">>, split(lower(note_name))) \o Ext

\* mutant of with_open: the handle is closed on the returning path only
with_open_leaky(block) ==
  [exc |-> block.exc, val |-> block.val,
   open |-> IF block.exc = "none" THEN 0 ELSE 1]

\* with open(note, 'r') as f: the handle the statement opens is closed when
\* its block is left, by return or by raise; open counts the handles the
\* call leaves open
with_open(block) == [exc |-> block.exc, val |-> block.val, open |-> 0]

\* Cache.extract_note_name: [exc, val, open]
extract_note_name(file) ==
  with_open(IF ~startswith(strip(file.l1), <<"#", "#">>)
            THEN [exc |-> "NoteFormatError", val |-> <<>>]
            ELSE [exc |-> "none", val |-> strip(lstrip_chars(file.l1, {"#"}))])

\* t[1:].strip() for every token t
RECURSIVE TagTokens(_)
TagTokens(toks) ==
  IF toks = <<>> THEN <<>> ELSE <<strip(Tail(Head(toks)))>> \o TagTokens(Tail(toks))

\* mutant of extract_note_tags: the second line is not checked
extract_note_tags_unchecked(file) ==
  with_open(IF ~startswith(strip(file.l1), <<"#", "#">>)
            THEN [exc |-> "NoteFormatError", val |-> <<>>]
            ELSE [exc |-> "none", val |-> TagTokens(split(file.l2))])

\* Cache.extract_note_tags: [exc, val, open]
extract_note_tags(file) ==
  with_open(IF ~startswith(strip(file.l1), <<"#", "#">>)
            THEN [exc |-> "NoteFormatError", val |-> <<>>]
            ELSE IF ~startswith(strip(file.l2), <<"#">>)
            THEN [exc |-> "NoteFormatError", val |-> <<>>]
            ELSE [exc |-> "none", val |-> TagTokens(split(file.l2))])

\* ------------------------------------------------------------ the index
\* self.tags[t] of a defaultdict(set): reading a missing key creates it
Touch(tg, t) == IF t \in DOMAIN tg THEN tg ELSE Put(tg, t, {})

\* set.remove(path) on self.tags[t]: KeyError when path is not a member
RemoveFromTag(tg, t, path) ==
  LET touched == Touch(tg, t)
  IN IF path \in touched[t]
     THEN [tags |-> Put(touched, t, touched[t] \ {path}), exc |-> "none"]
     ELSE [tags |-> touched, exc |-> "KeyError"]

\* for tag in tags: self.tags[tag].remove(str(note))
RECURSIVE RemoveEach(_, _, _)
RemoveEach(tg, tgs, path) ==
  IF tgs = <<>> THEN [tags |-> tg, exc |-> "none"]
  ELSE LET r == RemoveFromTag(tg, Head(tgs), path)
       IN IF r.exc # "none" THEN r ELSE RemoveEach(r.tags, Tail(tgs), path)

\* mutant of PrunePrev: every previous tag is removed, kept ones included
PrunePrev_unguarded(tg, prev_tags, tgs, path) == RemoveEach(tg, prev_tags, path)

\* for prev_tag in prev_tags: if prev_tag not in tags: remove
RECURSIVE PrunePrev(_, _, _, _)
PrunePrev(tg, prev_tags, tgs, path) ==
  IF prev_tags = <<>> THEN [tags |-> tg, exc |-> "none"]
  ELSE IF Head(prev_tags) \in Range(tgs)
  THEN PrunePrev(tg, Tail(prev_tags), tgs, path)
  ELSE LET r == RemoveFromTag(tg, Head(prev_tags), path)
       IN IF r.exc # "none" THEN r ELSE PrunePrev(r.tags, Tail(prev_tags), tgs, path)

\* mutant of AddEach: the path is added only under tags that have no set yet
AddEach_new_only(tg, tgs, path) ==
  [t \in DOMAIN tg \cup Range(tgs) |-> IF t \in DOMAIN tg THEN tg[t] ELSE {path}]

\* for tag in tags: self.tags[tag].add(str(new_note))
RECURSIVE AddEach(_, _, _)
AddEach(tg, tgs, path) ==
  IF tgs = <<>> THEN tg
  ELSE LET touched == Touch(tg, Head(tgs))
       IN AddEach(Put(touched, Head(tgs), touched[Head(tgs)] \cup {path}), Tail(tgs), path)

\* Cache.uncache_note: the index after the call and the exception it raised
uncache_note(idx, note) ==
  IF note \notin DOMAIN idx.notes
  THEN [notes |-> idx.notes, names |-> idx.names, tags |-> idx.tags, exc |-> "none"]
  ELSE LET note_name == idx.notes[note].name
           tgs == idx.notes[note].tags
       IN IF note_name \notin DOMAIN idx.names
          THEN [notes |-> idx.notes, names |-> idx.names, tags |-> idx.tags,
                exc |-> "KeyError"]
          ELSE LET names1 == Del(idx.names, note_name)
                   r == RemoveEach(idx.tags, tgs, note)
               IN IF r.exc # "none"
                  THEN [notes |-> idx.notes, names |-> names1, tags |-> r.tags,
                        exc |-> r.exc]
                  ELSE [notes |-> Del(idx.notes, note), names |-> names1,
                        tags |-> r.tags, exc |-> "none"]

\* pathlib.Path.rename: moves the file, replacing whatever is at the target
rename(dsk, from, to) == Put(Del(dsk, from), to, dsk[from])

\* mutant of cache_note_missing: a missing file is skipped, nothing is removed
cache_note_missing_skipped(idx, dsk, note) ==
  [notes |-> idx.notes, names |-> idx.names, tags |-> idx.tags, disk |-> dsk,
   exc |-> "none", ret |-> {}]

\* Cache.cache_note when the file does not exist: uncache_note, return None
cache_note_missing(idx, dsk, note) ==
  LET u == uncache_note(idx, note)
  IN [notes |-> u.notes, names |-> u.names, tags |-> u.tags, disk |-> dsk,
      exc |-> u.exc, ret |-> {}]

\* mutant of cache_note: no rename-on-write, the note is indexed under the
\* path it was given
cache_note_in_place(idx, dsk, note) ==
  IF note \notin DOMAIN dsk
  THEN cache_note_missing(idx, dsk, note)
  ELSE LET n == extract_note_name(dsk[note])
           t == extract_note_tags(dsk[note])
       IN IF n.exc # "none" \/ t.exc # "none"
          THEN [notes |-> idx.notes, names |-> idx.names, tags |-> idx.tags,
                disk |-> dsk, exc |-> "NoteFormatError", ret |-> {}]
          ELSE LET prev_tags == IF note \in DOMAIN idx.notes
                                THEN idx.notes[note].tags ELSE <<>>
                   r == PrunePrev(idx.tags, prev_tags, t.val, note)
               IN IF r.exc # "none"
                  THEN [notes |-> idx.notes, names |-> Put(idx.names, n.val, note),
                        tags |-> r.tags, disk |-> dsk, exc |-> r.exc, ret |-> {}]
                  ELSE [notes |-> Put(idx.notes, note,
                                      [name |-> n.val, tags |-> t.val]),
                        names |-> Put(idx.names, n.val, note),
                        tags |-> AddEach(r.tags, t.val, note),
                        disk |-> dsk, exc |-> "none", ret |-> {note}]

\* Cache.cache_note: index and disk after the call, exception, returned path
\* (ret is {} for None, else the singleton of the returned path)
cache_note(idx, dsk, note) ==
  IF note \notin DOMAIN dsk
  THEN cache_note_missing(idx, dsk, note)
  ELSE LET n == extract_note_name(dsk[note])
           t == extract_note_tags(dsk[note])
       IN IF n.exc # "none" \/ t.exc # "none"
          THEN [notes |-> idx.notes, names |-> idx.names, tags |-> idx.tags,
                disk |-> dsk, exc |-> "NoteFormatError", ret |-> {}]
          ELSE LET new_note == get_note_path_for_note_name(n.val)
                   dsk1 == IF new_note # note THEN rename(dsk, note, new_note) ELSE dsk
                   u == IF new_note # note THEN uncache_note(idx, note)
                        ELSE [notes |-> idx.notes, names |-> idx.names,
                              tags |-> idx.tags, exc |-> "none"]
               IN IF u.exc # "none"
                  THEN [notes |-> u.notes, names |-> u.names, tags |-> u.tags,
                        disk |-> dsk1, exc |-> u.exc, ret |-> {}]
                  ELSE LET names1 == Put(u.names, n.val, new_note)
                           prev_tags == IF new_note \in DOMAIN u.notes
                                        THEN u.notes[new_note].tags ELSE <<>>
                           r == PrunePrev(u.tags, prev_tags, t.val, new_note)
                       IN IF r.exc # "none"
                          THEN [notes |-> u.notes, names |-> names1, tags |-> r.tags,
                                disk |-> dsk1, exc |-> r.exc, ret |-> {}]
                          ELSE [notes |-> Put(u.notes, new_note,
                                              [name |-> n.val, tags |-> t.val]),
                                names |-> names1,
                                tags |-> AddEach(r.tags, t.val, new_note),
                                disk |-> dsk1, exc |-> "none", ret |-> {new_note}]

\* ------------------------------------------------------------ input sets
File(first, second) == [l1 |-> first, l2 |-> second]

LineA == <<"#", "#", " ", "A">>                       \* "## A"

Linea == <<"#", "#", "a">>                            \* "##a": same path as "A"

LineBb == <<"#", "#", " ", " ", "B", " ", "b", " ">>  \* "##  B b "

LineT == <<"#", "t">>                                 \* "#t"

LineUU == <<"#", "u", " ", "#", "u">>                 \* "#u #u": a repeated tag

WellFormed(file) ==
  extract_note_name(file).exc = "none" /\ extract_note_tags(file).exc = "none"

\* four well-formed files, the file "create a" writes (no name marker, empty
\* second line), and a file whose second line has no tag marker
Files ==
  { File(LineA, LineT), File(LineA, LineUU), File(Linea, LineT), File(LineBb, LineT),
    File(<<"A">>, <<>>), File(LineA, <<"t">>) }

PathA == <<"a">> \o Ext

PathBb == <<"b", "_", "b">> \o Ext

\* note.tmp_file_path of the configuration: the canonical path of no name
TmpPath == <<"x">> \o Ext

Paths == {PathA, PathBb, TmpPath}

\* the directories the bootstrap scan can find
Dirs ==
  UNION {[S -> Files] : S \in {T \in SUBSET Paths : Cardinality(T) <= MaxFiles}}

\* ------------------------------------------------------------ state
VARIABLES
  disk,     \* note directory: path -> file
  deleted,  \* the "deleted" subdirectory: path -> file
  notes,    \* Cache.notes: path -> [name, tags]
  names,    \* Cache.names: name -> path
  tags,     \* Cache.tags: tag -> set of paths
  last,     \* the operation that ended last: [op, note, exc, ret]
  pc,       \* "scan" | "prompt" | "crashed"
  todo,     \* paths the bootstrap scan has listed and not yet visited
  listing,  \* history: the directory as the scan found it, kept until the
            \* first command runs
  raised    \* history: some index call has raised KeyError

vars == <<disk, deleted, notes, names, tags, last, pc, todo, listing, raised>>

Index == [notes |-> notes, names |-> names, tags |-> tags]

Call(op, note, r) == [op |-> op, note |-> note, exc |-> r.exc, ret |-> r.ret]

External == [op |-> "external", note |-> <<>>, exc |-> "none", ret |-> {}]

\* Cache.__init__ over an empty note directory
Init ==
  /\ disk = Empty
  /\ deleted = Empty
  /\ notes = Empty
  /\ names = Empty
  /\ tags = Empty
  /\ last = [op |-> "__init__", note |-> <<>>, exc |-> "none", ret |-> {}]
  /\ pc = "prompt"
  /\ todo = {}
  /\ listing = Empty
  /\ raised = FALSE

\* the index and the disk become what an index call left
Apply(r) ==
  /\ notes' = r.notes
  /\ names' = r.names
  /\ tags' = r.tags
  /\ disk' = r.disk
  /\ raised' = (raised \/ r.exc = "KeyError")

\* a file is written outside the index (created or edited)
Edit(p, f) ==
  /\ IF p \in DOMAIN disk THEN disk[p] # f ELSE Cardinality(DOMAIN disk) < MaxFiles
  /\ disk' = Put(disk, p, f)
  /\ last' = External
  /\ UNCHANGED <<deleted, notes, names, tags, pc, todo, listing, raised>>

\* a file is removed outside the index
Remove(p) ==
  /\ p \in DOMAIN disk
  /\ disk' = Del(disk, p)
  /\ last' = External
  /\ UNCHANGED <<deleted, notes, names, tags, pc, todo, listing, raised>>

\* a caller runs cache.cache_note(p)
CacheNote(p) ==
  \E r \in {cache_note(Index, disk, p)} :
     /\ Apply(r)
     /\ last' = Call("cache_note", p, r)
     /\ UNCHANGED <<deleted, pc, todo, listing>>

\* a caller runs cache.uncache_note(p)
UncacheNote(p) ==
  \E u \in {uncache_note(Index, p)} :
     /\ Apply([notes |-> u.notes, names |-> u.names, tags |-> u.tags,
               disk |-> disk, exc |-> u.exc])
     /\ last' = [op |-> "uncache_note", note |-> p, exc |-> u.exc, ret |-> {}]
     /\ UNCHANGED <<deleted, pc, todo, listing>>

Next ==
  \/ \E p \in Paths, f \in Files : Edit(p, f)
  \/ \E p \in Paths : Remove(p)
  \/ \E p \in Paths : CacheNote(p)
  \/ \E p \in Paths : UncacheNote(p)

Spec == Init /\ [][Next]_vars

\* ------------------------------------------------------------ the program
\* cli(): Cache.__init__ scans the note directory, then the prompt loop runs
\* one command at a time; an exception no handler catches ends the process
InitCli ==
  /\ disk \in Dirs
  /\ deleted = Empty
  /\ notes = Empty
  /\ names = Empty
  /\ tags = Empty
  /\ last = [op |-> "__init__", note |-> <<>>, exc |-> "none", ret |-> {}]
  /\ pc = IF DOMAIN disk = {} THEN "prompt" ELSE "scan"
  /\ todo = DOMAIN disk
  /\ listing = disk
  /\ raised = FALSE

\* Cache._cache_notes: one iteration of the loop over the globbed paths;
\* NoteFormatError is caught and logged, anything else leaves __init__
ScanStep(p) ==
  /\ pc = "scan"
  /\ p \in todo
  /\ \E r \in {cache_note(Index, disk, p)} :
        /\ Apply(r)
        /\ last' = Call("_cache_notes", p, r)
        /\ todo' = todo \ {p}
        /\ pc' = IF r.exc = "KeyError" THEN "crashed"
                 ELSE IF todo \ {p} = {} THEN "prompt" ELSE "scan"
  /\ UNCHANGED <<deleted, listing>>

\* the directories the executor (an editor run on path p) can leave: the
\* directory as it was, or with some file saved at p
Edited(dsk, p) ==
  {dsk} \cup
    IF p \in DOMAIN dsk \/ Cardinality(DOMAIN dsk) < MaxFiles
    THEN {Put(dsk, p, f) : f \in Files} ELSE {}

\* create_note: p is note.tmp_file_path or the canonical path of the typed
\* name.  A named note that exists is refused; otherwise the template is
\* written (not for the tmp path), the editor runs and leaves the directory
\* as dsk, the file is indexed and NoteFormatError is caught
create_note(p, dsk) ==
  /\ pc = "prompt"
  /\ dsk \in Edited(disk, p)
  /\ IF p # TmpPath /\ p \in DOMAIN disk
     THEN /\ dsk = disk
          /\ last' = [op |-> "create_note", note |-> p, exc |-> "none", ret |-> {}]
          /\ UNCHANGED <<disk, notes, names, tags, pc, raised>>
     ELSE /\ p # TmpPath => p \in DOMAIN dsk
          /\ \E r \in {cache_note(Index, dsk, p)} :
                /\ Apply(r)
                /\ last' = Call("create_note", p, r)
                /\ pc' = IF r.exc = "KeyError" THEN "crashed" ELSE "prompt"
  /\ listing' = Empty
  /\ UNCHANGED <<deleted, todo>>

\* delete_note: the file moves to the deleted directory, then the old path is
\* indexed again
delete_note(p) ==
  /\ pc = "prompt"
  /\ p \in DOMAIN deleted \/ Cardinality(DOMAIN deleted) < MaxDeleted
  /\ IF p \notin DOMAIN disk
     THEN /\ last' = [op |-> "delete_note", note |-> p, exc |-> "FileNotFoundError",
                      ret |-> {}]
          /\ pc' = "crashed"
          /\ UNCHANGED <<disk, deleted, notes, names, tags, raised>>
     ELSE \E r \in {cache_note(Index, Del(disk, p), p)} :
             /\ deleted' = Put(deleted, p, disk[p])
             /\ Apply(r)
             /\ last' = Call("delete_note", p, r)
             /\ pc' = IF r.exc = "none" THEN "prompt" ELSE "crashed"
  /\ listing' = Empty
  /\ UNCHANGED todo

\* restore_note: the file moves back from the deleted directory, then it is
\* indexed
restore_note(p) ==
  /\ pc = "prompt"
  /\ p \in DOMAIN disk \/ Cardinality(DOMAIN disk) < MaxFiles
  /\ IF p \notin DOMAIN deleted
     THEN /\ last' = [op |-> "restore_note", note |-> p, exc |-> "FileNotFoundError",
                      ret |-> {}]
          /\ pc' = "crashed"
          /\ UNCHANGED <<disk, deleted, notes, names, tags, raised>>
     ELSE \E r \in {cache_note(Index, Put(disk, p, deleted[p]), p)} :
             /\ deleted' = Del(deleted, p)
             /\ Apply(r)
             /\ last' = Call("restore_note", p, r)
             /\ pc' = IF r.exc = "none" THEN "prompt" ELSE "crashed"
  /\ listing' = Empty
  /\ UNCHANGED todo

\* operate_note: the executor runs on the path and leaves the directory as
\* dsk, then the path is indexed
operate_note(p, dsk) ==
  /\ pc = "prompt"
  /\ dsk \in Edited(disk, p)
  /\ \E r \in {cache_note(Index, dsk, p)} :
        /\ Apply(r)
        /\ last' = Call("operate_note", p, r)
        /\ pc' = IF r.exc = "none" THEN "prompt" ELSE "crashed"
  /\ listing' = Empty
  /\ UNCHANGED <<deleted, todo>>

\* handle_operation
NextCli ==
  \/ \E p \in Paths : ScanStep(p)
  \/ \E p \in Paths : \E dsk \in Edited(disk, p) : create_note(p, dsk)
  \/ \E p \in Paths : delete_note(p)
  \/ \E p \in Paths : restore_note(p)
  \/ \E p \in Paths : \E dsk \in Edited(disk, p) : operate_note(p, dsk)

SpecCli == InitCli /\ [][NextCli]_vars

\* ------------------------------------------------------------ the parser
\* the two class methods on their own, on one file that holds arbitrary text
Chars == {"#", " ", "a"}

\* the lines of at most n characters
RECURSIVE LinesUpTo(_)
LinesUpTo(n) ==
  IF n = 0 THEN {<<>>}
  ELSE LET shorter == LinesUpTo(n - 1)
       IN shorter \cup {<<c>> \o l : c \in Chars, l \in {m \in shorter : Len(m) = n - 1}}

Lines == LinesUpTo(MaxLen)

\* an arbitrary first line over a fixed tag line, or a fixed name line over an
\* arbitrary second line
ParserFiles == {File(l, LineT) : l \in Lines} \cup {File(LineA, l) : l \in Lines}

InitParse ==
  /\ disk \in {[p \in {TmpPath} |-> f] : f \in ParserFiles}
  /\ deleted = Empty
  /\ notes = Empty
  /\ names = Empty
  /\ tags = Empty
  /\ last = [op |-> "__init__", note |-> <<>>, exc |-> "none", ret |-> {}]
  /\ pc = "prompt"
  /\ todo = {}
  /\ listing = Empty
  /\ raised = FALSE

\* what a parser call on p left: its exception, the value it returned (ret is
\* {} when it raised) and the handles it left open
Parsed(op, p, r) ==
  [op |-> op, note |-> p, exc |-> r.exc,
   ret |-> IF r.exc = "none" THEN {r.val} ELSE {}, open |-> r.open]

\* a caller runs Cache.extract_note_name(p)
ExtractNoteName(p) ==
  /\ p \in DOMAIN disk
  /\ last' = Parsed("extract_note_name", p, extract_note_name(disk[p]))
  /\ UNCHANGED <<disk, deleted, notes, names, tags, pc, todo, listing, raised>>

\* a caller runs Cache.extract_note_tags(p)
ExtractNoteTags(p) ==
  /\ p \in DOMAIN disk
  /\ last' = Parsed("extract_note_tags", p, extract_note_tags(disk[p]))
  /\ UNCHANGED <<disk, deleted, notes, names, tags, pc, todo, listing, raised>>

NextParse ==
  \/ \E p \in Paths : ExtractNoteName(p)
  \/ \E p \in Paths : ExtractNoteTags(p)

SpecParse == InitParse /\ [][NextParse]_vars

\* ------------------------------------------------------------ properties
\* the names that resolve to path p in the mapping nm
NamesIn(nm, p) == {n \in DOMAIN nm : nm[n] = p}

NamesOf(p) == NamesIn(names, p)

\* the tags whose path set holds p in the mapping tg
TagsIn(tg, p) == {t \in DOMAIN tg : p \in tg[t]}

TagsOf(p) == TagsIn(tags, p)

NamesInverse ==
  /\ \A n \in DOMAIN names :
       names[n] \in DOMAIN notes /\ notes[names[n]].name = n
  /\ \A p \in DOMAIN notes :
       notes[p].name \in DOMAIN names /\ names[notes[p].name] = p

TagsTranspose ==
  /\ \A t \in DOMAIN tags : \A p \in tags[t] :
       p \in DOMAIN notes /\ t \in Range(notes[p].tags)
  /\ \A p \in DOMAIN notes : \A t \in Range(notes[p].tags) :
       t \in DOMAIN tags /\ p \in tags[t]

\* C1: after any sequence of index calls that all completed (none was cut
\* short by a KeyError), interleaved with external edits, names is exactly
\* the inverse of the name field of notes.
C1_NamesInverseOfNotes == ~raised => NamesInverse

\* C2: after any sequence of index calls, whether they returned or raised,
\* tags is exactly the transpose of the tags field of notes.
C2_TagsTransposeOfNotes == TagsTranspose

\* C3: after uncache_note(p) returns, p is no key of notes, no value of names
\* and a member of no tag's path set.
C3_RemovedEverywhere ==
  (last.op = "uncache_note" /\ last.exc = "none") =>
    /\ last.note \notin DOMAIN notes
    /\ NamesOf(last.note) = {}
    /\ TagsOf(last.note) = {}

\* C4: uncache_note never raises.
C4_UncacheNeverRaises == last.op = "uncache_note" => last.exc = "none"

\* the first line lacks the '##' marker (once surrounding whitespace is
\* stripped, as the parser tests it)
LacksNameMarker(file) == ~startswith(strip(file.l1), <<"#", "#">>)

\* the second line lacks the '#' marker
LacksTagMarker(file) == ~startswith(strip(file.l2), <<"#">>)

\* C5: cache_note(p) on an existing file whose first line lacks '##' or whose
\* second line lacks '#' raises NoteFormatError and leaves notes, names, tags
\* and the file where they were.
C5_FormatErrorChangesNothing ==
  [][(/\ last'.op = "cache_note"
      /\ last'.note \in DOMAIN disk
      /\ LacksNameMarker(disk[last'.note]) \/ LacksTagMarker(disk[last'.note]))
     => /\ last'.exc = "NoteFormatError"
        /\ UNCHANGED <<notes, names, tags, disk>>]_vars

\* cache_note raised NoteFormatError on a path that was, and still is, indexed
C5_Witness ==
  /\ last.op = "cache_note"
  /\ last.exc = "NoteFormatError"
  /\ last.note \in DOMAIN notes
  /\ last.note \in DOMAIN disk
  /\ LacksTagMarker(disk[last.note])

\* path p is in notes, in names under its entry's name and in tags under each
\* of its entry's tags, or it is in none of the three
AtomicAt(p) ==
  \/ /\ p \in DOMAIN notes
     /\ notes[p].name \in NamesOf(p)
     /\ Range(notes[p].tags) \subseteq TagsOf(p)
  \/ /\ p \notin DOMAIN notes
     /\ NamesOf(p) = {}
     /\ TagsOf(p) = {}

Atomic == \A p \in Paths : AtomicAt(p)

\* C6: after a cache_note or uncache_note call has ended, every path is
\* present in all three mappings or absent from all three, and a call that
\* raised left the three mappings as they were.
C6_NoPartialUpdate ==
  [][(last'.op \in {"cache_note", "uncache_note"})
     => /\ Atomic'
        /\ last'.exc # "none" => UNCHANGED <<notes, names, tags>>]_vars

\* C7: cache_note(p) on a well-formed file at a path p other than the
\* canonical path r of its name moves the file to r, returns r, stores the
\* parsed entry under r and leaves p in none of the three mappings.
C7_RenameOnWrite ==
  [][(/\ last'.op = "cache_note"
      /\ last'.note \in DOMAIN disk
      /\ WellFormed(disk[last'.note])
      /\ get_note_path_for_note_name(extract_note_name(disk[last'.note]).val)
           # last'.note)
     => LET p == last'.note
            n == extract_note_name(disk[p]).val
            r == get_note_path_for_note_name(n)
        IN /\ disk' = rename(disk, p, r)
           /\ last'.exc = "none"
           /\ last'.ret = {r}
           /\ r \in DOMAIN notes'
           /\ notes'[r] = [name |-> n, tags |-> extract_note_tags(disk[p]).val]
           /\ p \notin DOMAIN notes'
           /\ NamesIn(names', p) = {}
           /\ TagsIn(tags', p) = {}]_vars

\* C8: cache_note(p) on a missing file raises nothing, returns None, leaves
\* the index as uncache_note(p) would and every other path's entries alone.
C8_MissingFileIsRemoval ==
  [][(last'.op = "cache_note" /\ last'.note \notin DOMAIN disk)
     => LET p == last'.note
            u == uncache_note(Index, p)
        IN /\ last'.exc = "none"
           /\ last'.ret = {}
           /\ notes' = u.notes /\ names' = u.names /\ tags' = u.tags
           /\ \A q \in DOMAIN notes \ {p} :
                q \in DOMAIN notes' /\ notes'[q] = notes[q]
           /\ \A n \in DOMAIN names :
                names[n] # p => n \in DOMAIN names' /\ names'[n] = names[n]
           /\ \A t \in DOMAIN tags :
                t \in DOMAIN tags' /\ tags'[t] \ {p} = tags[t] \ {p}]_vars

\* C9: while every change to a note file is followed by cache_note on the
\* changed path (the commands of the prompt loop do exactly that), after
\* every completed operation each path key of notes is a file on disk.
C9_IndexedFilesExist ==
  pc # "crashed" => \A p \in DOMAIN notes : p \in DOMAIN disk

\* delete_note completed on an indexed note while another note stays indexed
C9_Witness ==
  /\ last.op = "delete_note"
  /\ last.exc = "none"
  /\ last.note \in DOMAIN deleted
  /\ WellFormed(deleted[last.note])
  /\ last.note \notin DOMAIN notes
  /\ notes # Empty

\* the index entry of a well-formed file
Entry(file) ==
  [name |-> extract_note_name(file).val, tags |-> extract_note_tags(file).val]

\* C10: the bootstrap scan ends without raising, and then the index holds an
\* entry for every well-formed file that was in the directory and no entry
\* that comes from no such file.
C10_ScanIndexesWellFormed ==
  /\ last.op = "_cache_notes" => pc # "crashed"
  /\ (last.op = "_cache_notes" /\ pc = "prompt") =>
       /\ \A p \in DOMAIN listing :
            WellFormed(listing[p]) =>
              \E q \in DOMAIN notes : notes[q] = Entry(listing[p])
       /\ \A q \in DOMAIN notes :
            \E p \in DOMAIN listing :
              WellFormed(listing[p]) /\ notes[q] = Entry(listing[p])

\* a call cache_note(p) that re-indexes, in place, a note the index holds:
\* p is a key of notes and its file is well-formed with a name whose
\* canonical path is p
ReindexInPlace ==
  /\ last'.op = "cache_note"
  /\ last'.note \in DOMAIN notes
  /\ last'.note \in DOMAIN disk
  /\ WellFormed(disk[last'.note])
  /\ get_note_path_for_note_name(extract_note_name(disk[last'.note]).val)
       = last'.note

\* C11: re-indexing an indexed note whose tag line changed removes its path
\* from the set of every tag it had and no longer has, leaves it in or adds it
\* to the set of every tag it has now, and leaves the paths of other notes in
\* the tag sets alone.
C11_TagDiff ==
  [][ReindexInPlace
     => LET p == last'.note
            old == Range(notes[p].tags)
            new == Range(extract_note_tags(disk[p]).val)
        IN /\ \A t \in old \ new : t \notin TagsIn(tags', p)
           /\ \A t \in new : t \in TagsIn(tags', p)
           /\ \A q \in Paths \ {p} : TagsIn(tags', q) = TagsIn(tags, q)]_vars

\* C12: a cache_note call that directly follows a cache_note call, on the path
\* that call was given or on the path it returned, with no write in between,
\* leaves notes, names and tags as the first call left them.
C12_Idempotent ==
  [][(/\ last.op = "cache_note"
      /\ last'.op = "cache_note"
      /\ last'.note \in {last.note} \cup last.ret)
     => UNCHANGED <<notes, names, tags>>]_vars

\* a cache_note call has moved a note with a repeated tag to its canonical
\* path and indexed it there, next to another indexed note: the state a
\* second call on either path starts from
C12_Witness ==
  /\ last.op = "cache_note"
  /\ last.exc = "none"
  /\ last.ret # {}
  /\ last.note \notin last.ret
  /\ \A r \in last.ret : r \in DOMAIN notes /\ Len(notes[r].tags) > 1
  /\ Cardinality(DOMAIN notes) > 1

\* C13: a cache_note call that returns a path r was given a well-formed file
\* with name N and tags T, and leaves names[N] = r, r in tags[t] for every t
\* of T, and notes[r] = [name N, tags T].
C13_IndexedAsParsed ==
  [][(last'.op = "cache_note" /\ last'.exc = "none" /\ last'.ret # {})
     => /\ last'.note \in DOMAIN disk
        /\ WellFormed(disk[last'.note])
        /\ LET N == extract_note_name(disk[last'.note]).val
               T == extract_note_tags(disk[last'.note]).val
           IN \A r \in last'.ret :
                /\ N \in DOMAIN names' /\ names'[N] = r
                /\ \A t \in Range(T) : t \in DOMAIN tags' /\ r \in tags'[t]
                /\ r \in DOMAIN notes'
                /\ notes'[r] = [name |-> N, tags |-> T]]_vars

\* a cache_note call returned a path that now shares a tag with another note
C13_Witness ==
  /\ last.op = "cache_note"
  /\ last.exc = "none"
  /\ \E r \in last.ret :
       /\ r \in DOMAIN notes
       /\ \E t \in DOMAIN tags : r \in tags[t] /\ tags[t] # {r}

\* C14: no two distinct path keys of notes have entries with the same name.
C14_NamesUnique ==
  \A p \in DOMAIN notes : \A q \in DOMAIN notes :
     notes[p].name = notes[q].name => p = q

\* two notes are indexed and the last of them came from a file at the
\* temporary path
C14_Witness ==
  /\ Cardinality(DOMAIN notes) = 2
  /\ last.op = "cache_note"
  /\ last.exc = "none"
  /\ last.note = TmpPath
  /\ last.ret # {}

\* C18: every path key of notes is the canonical path of the name stored in
\* its entry; no entry sits under a non-canonical path a file was indexed from.
C18_KeysCanonical ==
  \A p \in DOMAIN notes : p = get_note_path_for_note_name(notes[p].name)

\* a file at a non-canonical path was indexed: the call returned another path,
\* which is a key of notes, and the path it was given is not
C18_Witness ==
  /\ last.op = "cache_note"
  /\ last.exc = "none"
  /\ last.ret # {}
  /\ last.ret \subseteq DOMAIN notes
  /\ last.note \notin last.ret
  /\ last.note \notin DOMAIN notes

\* the well-formed file at q is indexed as it stands on the disk
IndexedAsOnDisk(q) ==
  /\ q \in DOMAIN disk
  /\ WellFormed(disk[q])
  /\ q \in DOMAIN notes
  /\ notes[q] = Entry(disk[q])

\* C19: a cache_note call that returns, on a well-formed indexed note p, leaves
\* every other well-formed indexed note q where it was: its file on the disk,
\* its entry in notes, its name in names and its path in the sets of its tags.
C19_OtherNoteKept ==
  [][(/\ last'.op = "cache_note"
      /\ last'.exc = "none"
      /\ last'.note \in DOMAIN notes
      /\ last'.note \in DOMAIN disk
      /\ WellFormed(disk[last'.note]))
     => \A q \in Paths \ {last'.note} :
          IndexedAsOnDisk(q)
          => /\ q \in DOMAIN disk' /\ disk'[q] = disk[q]
             /\ q \in DOMAIN notes' /\ notes'[q] = notes[q]
             /\ NamesIn(names', q) = NamesIn(names, q)
             /\ TagsIn(tags', q) = TagsIn(tags, q)]_vars

\* C20: delete_note on an indexed note whose file is at its path ends without
\* raising and leaves the path in none of the three mappings, and restore_note
\* on the moved file, run next, gives notes, names and tags the values they
\* had before the delete.
C20_DeleteRestoreRoundTrip ==
  [][(/\ last'.op = "delete_note"
      /\ last'.note \in DOMAIN notes
      /\ last'.note \in DOMAIN disk)
     => /\ last'.exc = "none"
        /\ last'.note \notin DOMAIN notes'
        /\ NamesIn(names', last'.note) = {}
        /\ TagsIn(tags', last'.note) = {}
        /\ last'.note \in DOMAIN deleted'
        /\ \E r \in {cache_note(Index', Put(disk', last'.note, deleted'[last'.note]),
                                last'.note)} :
             /\ r.exc = "none"
             /\ r.notes = notes
             /\ r.names = names
             /\ r.tags = tags]_vars

\* a token without its '#' marker character, nothing else removed
MarkerStripped(tok) == IF tok # <<>> /\ Head(tok) = "#" THEN Tail(tok) ELSE tok

RECURSIVE EachMarkerStripped(_)
EachMarkerStripped(toks) ==
  IF toks = <<>> THEN <<>>
  ELSE <<MarkerStripped(Head(toks))>> \o EachMarkerStripped(Tail(toks))

\* C15: for a note whose second line begins with '#', extract_note_tags
\* returns one tag per whitespace-separated token of that line, in order and
\* with duplicates, each the token without its '#' marker and otherwise whole,
\* tokens that do not start with '#' included.
C15_TagsAreTokens ==
  (/\ last.op = "extract_note_tags"
   /\ startswith(strip(disk[last.note].l1), <<"#", "#">>)
   /\ startswith(disk[last.note].l2, <<"#">>))
  => /\ last.exc = "none"
     /\ last.ret = {EachMarkerStripped(split(disk[last.note].l2))}

\* C16: extract_note_name raises NoteFormatError for every first line that
\* does not begin with '##'; for every first line that does, it returns the
\* rest of the line after that marker with surrounding whitespace stripped,
\* and the returned name does not start with '##'.
C16_NameAfterMarker ==
  last.op = "extract_note_name"
  => IF ~startswith(disk[last.note].l1, <<"#", "#">>)
     THEN last.exc = "NoteFormatError"
     ELSE /\ last.exc = "none"
          /\ last.ret = {strip(SubSeq(disk[last.note].l1, 3,
                                      Len(disk[last.note].l1)))}
          /\ \A name \in last.ret : ~startswith(name, <<"#", "#">>)

====
